---- MODULE Spec2Model ----
(***************************************************************************)
(* A model of dlfs/layers.py: DenseLayer, ConvolutionalLayer and           *)
(* ReshapeLayer.  One layer object is constructed and then driven by an    *)
(* arbitrary sequence of forward and backward calls.  Tensors hold         *)
(* integers; a 2D array is a record [r, c, v] (rows, columns, values), a   *)
(* 3D array a sequence of 2D arrays, a 4D array a sequence of 3D arrays.   *)
(* A call that raises leaves the object with whatever the statements       *)
(* executed before the raise have written, and the object can be called    *)
(* again afterwards.                                                       *)
(***************************************************************************)
EXTENDS Integers, Sequences, FiniteSets, TLC

VARIABLES
    kind,      \* class of the layer object: "none" before construction
    cfg,       \* constructor arguments and the attributes derived from them
    has,       \* names of the tensor attributes that exist on the object
    weights,   \* DenseLayer.weights
    kernels,   \* ConvolutionalLayer.kernels
    biases,    \* biases of the dense / convolutional layer
    inputs,    \* self.inputs
    output,    \* self.output
    dweights,  \* DenseLayer.dweights
    dkernels,  \* ConvolutionalLayer.dkernels
    dbiases,   \* self.dbiases
    dinputs,   \* self.dinputs
    call,      \* the most recent call: its operation, whether it raised, whether
               \* it is a backward call right after a backward call, and the
               \* arguments of the most recent forward and backward calls
    padCalls   \* pad_to_shape invocations of the most recent call

vars == <<kind, cfg, has, weights, kernels, biases, inputs, output,
          dweights, dkernels, dbiases, dinputs, call, padCalls>>

attrs == <<has, weights, kernels, biases, inputs, output,
           dweights, dkernels, dbiases, dinputs>>

(* ------------------------------ bounds -------------------------------- *)
MaxSize == 3
MaxKernel == 2
MaxStride == 3
MaxCh == 2
MaxBatch == 2
MaxUnits == 2

Patterns == {"ones", "ramp"}

(* --------------------------- 2D arrays -------------------------------- *)
Mat(r, c, F(_, _)) ==
    [r |-> r, c |-> c, v |-> [y \in 1..r |-> [x \in 1..c |-> F(y, x)]]]

Zeros(r, c) == Mat(r, c, LAMBDA y, x : 0)

Shape2(m) == <<m.r, m.c>>

RECURSIVE SumSeq(_)
SumSeq(s) == IF Len(s) = 0 THEN 0 ELSE Head(s) + SumSeq(Tail(s))

Sum2(r, c, F(_, _)) ==
    SumSeq([y \in 1..r |-> SumSeq([x \in 1..c |-> F(y, x)])])

\* numpy broadcasting of one axis of the right operand of an in-place add
AxisFits(t, s) == s = t \/ s = 1

Pick(n, i) == IF n = 1 THEN 1 ELSE i

\* target += src for 2D arrays: [ok, m]
AddInto(t, s) ==
    IF AxisFits(t.r, s.r) /\ AxisFits(t.c, s.c)
    THEN [ok |-> TRUE,
          m |-> Mat(t.r, t.c,
                    LAMBDA y, x : t.v[y][x] + s.v[Pick(s.r, y)][Pick(s.c, x)])]
    ELSE [ok |-> FALSE, m |-> t]

SubsampleFromLast(m, stride) ==
    Mat(m.r \div stride, m.c \div stride,
        LAMBDA y, x : m.v[y * stride][x * stride])

\* array[::stride, ::stride]
Subsample(m, stride) ==
    Mat((m.r + stride - 1) \div stride, (m.c + stride - 1) \div stride,
        LAMBDA y, x : m.v[(y - 1) * stride + 1][(x - 1) * stride + 1])

Reverse2(m) == Mat(m.r, m.c, LAMBDA y, x : m.v[m.r + 1 - y][m.c + 1 - x])

\* scipy.signal.correlate2d(a, b, "valid") needs one operand to contain the other
ValidFits(a, b) ==
    \/ a.r >= b.r /\ a.c >= b.c
    \/ b.r >= a.r /\ b.c >= a.c

CorrInner(a, b) ==
    Mat(a.r - b.r + 1, a.c - b.c + 1,
        LAMBDA p, q : Sum2(b.r, b.c,
                           LAMBDA u, w : a.v[p + u - 1][q + w - 1] * b.v[u][w]))

ConvolveValid(a, b) ==
    Mat(a.r - b.r + 1, a.c - b.c + 1,
        LAMBDA p, q : Sum2(b.r, b.c,
            LAMBDA u, w : a.v[p + u - 1][q + w - 1]
                          * b.v[b.r + 1 - u][b.c + 1 - w]))

\* scipy.signal.correlate2d(a, b, "valid"); the operands are swapped, and the
\* result reversed, when only b contains a
Correlate2dValid(a, b) ==
    IF a.r >= b.r /\ a.c >= b.c
    THEN CorrInner(a, b)
    ELSE Reverse2(CorrInner(b, a))

\* scipy.signal.convolve2d(a, b, "full")
Convolve2dFull(a, b) ==
    Mat(a.r + b.r - 1, a.c + b.c - 1,
        LAMBDA y, x : Sum2(a.r, a.c,
            LAMBDA u, w :
                IF y - u + 1 \in 1..b.r /\ x - w + 1 \in 1..b.c
                THEN a.v[u][w] * b.v[y - u + 1][x - w + 1]
                ELSE 0))

(* helpers.dilate and helpers.pad_to_shape *)
DilatedSide(n, stride) == (n - 1) * stride + 1

dilate(m, stride) ==
    Mat(DilatedSide(m.r, stride), DilatedSide(m.c, stride),
        LAMBDA y, x :
            IF (y - 1) % stride = 0 /\ (x - 1) % stride = 0
            THEN m.v[(y - 1) \div stride + 1][(x - 1) \div stride + 1]
            ELSE 0)

PadFits(m, shape) == shape[1] >= m.r /\ shape[2] >= m.c

pad_to_shape(m, shape) ==
    Mat(shape[1], shape[2],
        LAMBDA y, x : IF y <= m.r /\ x <= m.c THEN m.v[y][x] ELSE 0)

(* --------------------------- generators ------------------------------- *)
Val(p, n) == IF p = "ones" THEN 1 ELSE IF p = "zero" THEN 0 ELSE n + 1

Gen2(r, c, p, base) == Mat(r, c, LAMBDA y, x : Val(p, base + (y - 1) * c + (x - 1)))

Gen3(d, r, c, p, base) ==
    [k \in 1..d |-> Gen2(r, c, p, base + (k - 1) * r * c)]

Gen4(b, d, r, c, p) ==
    [i \in 1..b |-> Gen3(d, r, c, p, (i - 1) * d * r * c)]

Shape4(t) == <<Len(t), Len(t[1]), t[1][1].r, t[1][1].c>>

Shape3(t) == <<Len(t), t[1].r, t[1].c>>

None == <<>>

NoCall == [op |-> "none", err |-> FALSE, again |-> FALSE, x |-> None, delta |-> None]

Init ==
    /\ kind = "none"
    /\ cfg = None
    /\ has = {}
    /\ weights = None /\ kernels = None /\ biases = None
    /\ inputs = None /\ output = None
    /\ dweights = None /\ dkernels = None /\ dbiases = None /\ dinputs = None
    /\ call = NoCall
    /\ padCalls = {}

\* the record of a forward / backward call that raised (err) or returned
ForwardCall(x, err) ==
    [call EXCEPT !.op = "forward", !.again = FALSE, !.x = x, !.err = err]

BackwardCall(delta, err) ==
    [call EXCEPT !.op = "backward", !.again = (call.op = "backward"),
                 !.delta = delta, !.err = err]

\* a layer object of class k was constructed; it stays callable after a call
\* has raised
Live(k) == kind = k

(* ----------------------- ConvolutionalLayer --------------------------- *)
OutputSizeCeil(n, kernel_size, stride) ==
    (n - kernel_size + stride - 1) \div stride + 1

\* int(floor((n - kernel_size) / stride) + 1)
OutputSize(n, kernel_size, stride) == (n - kernel_size) \div stride + 1

\* __init__: np.random.randn raises on a negative dimension and accepts a zero one
ConvInit(ic, oc, h, w, kernel_size, stride, p) ==
    LET oh == OutputSize(h, kernel_size, stride)
        ow == OutputSize(w, kernel_size, stride)
        c == [input_shape |-> <<ic, h, w>>, input_channels |-> ic,
              output_channels |-> oc, kernel_size |-> kernel_size,
              stride |-> stride, output_shape |-> <<oc, oh, ow>>]
    IN  /\ kind = "none"
        /\ cfg' = c
        /\ call' = [NoCall EXCEPT !.op = "init", !.err = (oh < 0 \/ ow < 0)]
        /\ IF oh < 0 \/ ow < 0
           THEN /\ kind' = "failed"
                /\ UNCHANGED <<has, kernels, biases>>
           ELSE /\ kind' = "conv"
                /\ has' = {"kernels", "biases"}
                /\ kernels' = Gen4(oc, ic, kernel_size, kernel_size, p)
                /\ biases' = Gen3(oc, oh, ow, IF p = "ones" THEN "zero" ELSE p, 0)
        /\ UNCHANGED <<weights, inputs, output, dweights, dkernels, dbiases,
                       dinputs, padCalls>>

\* the (sample, output channel, input channel) of the t-th loop iteration
LoopI(t, oc, ic) == (t - 1) \div (oc * ic) + 1
LoopJ(t, oc, ic) == (((t - 1) \div ic) % oc) + 1
LoopK(t, ic) == ((t - 1) % ic) + 1

\* the loop state after a raise
Fail(st) == [st EXCEPT !.err = TRUE]

\* the loop state after target += src, which raises when src does not broadcast
SetOut(st, i, j, a) == IF a.ok THEN [st EXCEPT !.out[i][j] = a.m] ELSE Fail(st)

SetDk(st, j, k, a) == IF a.ok THEN [st EXCEPT !.dk[j][k] = a.m] ELSE Fail(st)

SetDi(st, i, k, a) == IF a.ok THEN [st EXCEPT !.di[i][k] = a.m] ELSE Fail(st)

SetDb(st, a) == IF a.ok THEN [st EXCEPT !.db = a.t] ELSE Fail(st)

\* the loop state after a call of pad_to_shape is recorded
Note(st, site, from, to) ==
    [st EXCEPT !.pads = @ \cup {[site |-> site, from |-> from, to |-> to]}]

\* self.output[i, j] += correlate2d(inputs[i, k], kernels[j, k], "valid")[::s, ::s]
ConvForwardStep(st, x, i, j, k) ==
    IF k > Len(x[i]) \/ ~ValidFits(x[i][k], kernels[j][k])
    THEN Fail(st)
    ELSE SetOut(st, i, j,
                AddInto(st.out[i][j],
                        Subsample(Correlate2dValid(x[i][k], kernels[j][k]),
                                  cfg.stride)))

RECURSIVE ConvForwardLoop(_, _, _, _)
ConvForwardLoop(st, x, t, n) ==
    IF t > n \/ st.err THEN st
    ELSE ConvForwardLoop(
             ConvForwardStep(st, x, LoopI(t, cfg.output_channels, cfg.input_channels),
                             LoopJ(t, cfg.output_channels, cfg.input_channels),
                             LoopK(t, cfg.input_channels)),
             x, t + 1, n)

\* lines 130-140: output starts as the biases of every sample
ConvOutput(x) ==
    ConvForwardLoop([out |-> [i \in 1..Len(x) |-> biases], err |-> FALSE], x, 1,
                    Len(x) * cfg.output_channels * cfg.input_channels)

ConvForwardStore(x, end) ==
    /\ inputs' = x
    /\ output' = end.out
    /\ has' = has \cup {"inputs", "output"}
    /\ call' = ForwardCall(x, end.err)
    /\ padCalls' = {}
    /\ UNCHANGED <<kind, cfg, weights, kernels, biases, dweights, dkernels,
                   dbiases, dinputs>>

ConvForward(x) == Live("conv") /\ ConvForwardStore(x, ConvOutput(x))

\* target += src for 3D arrays (numpy broadcasts every axis of src): [ok, t]
AddInto3(t, s) ==
    IF /\ AxisFits(Len(t), Len(s))
       /\ AxisFits(t[1].r, s[1].r)
       /\ AxisFits(t[1].c, s[1].c)
    THEN [ok |-> TRUE,
          t |-> [j \in 1..Len(t) |-> AddInto(t[j], s[Pick(Len(s), j)]).m]]
    ELSE [ok |-> FALSE, t |-> t]

\* line 187 compares delta_dilated.shape, a tuple, with an int: never equal
ShapeEqualsInt(shape, side) == FALSE

\* dkernels[j, k] += correlate2d(inputs[i, k], g, "valid")
CorrelateInto(st, g, i, j, k) ==
    IF ~ValidFits(inputs[i][k], g) THEN Fail(st)
    ELSE SetDk(st, j, k, AddInto(st.dk[j][k], Correlate2dValid(inputs[i][k], g)))

\* dinputs[i, k] += g
AccumulateInto(st, g, i, k) ==
    IF st.err THEN st ELSE SetDi(st, i, k, AddInto(st.di[i][k], g))

\* stride == 1: lines 174 and 176
ConvBackwardUnit(st, delta, i, j, k) ==
    AccumulateInto(CorrelateInto(st, delta[i][j], i, j, k),
                   Convolve2dFull(delta[i][j], kernels[j][k]), i, k)

\* lines 192-194
PadThenCorrelate(st, delta_dilated, new_delta_shape, i, j, k) ==
    IF ~PadFits(delta_dilated, new_delta_shape) THEN Fail(st)
    ELSE CorrelateInto(st, pad_to_shape(delta_dilated, new_delta_shape), i, j, k)

\* stride > 1, lines 183-196: the gradient with respect to the kernels
ConvBackwardKernel(st, delta_dilated, i, j, k) ==
    LET input_shape == inputs[i][k].r
        kernel_shape == st.dk[j][k].r
        side == input_shape - kernel_shape + 1
    IN  IF ShapeEqualsInt(Shape2(delta_dilated), side)
        THEN CorrelateInto(st, delta_dilated, i, j, k)
        ELSE PadThenCorrelate(Note(st, "delta", Shape2(delta_dilated), <<side, side>>),
                              delta_dilated, <<side, side>>, i, j, k)

\* lines 201-207
PadThenAccumulate(st, dinput, i, k) ==
    IF Shape2(dinput) = Shape2(st.di[i][k])
    THEN AccumulateInto(st, dinput, i, k)
    ELSE IF ~PadFits(dinput, Shape2(st.di[i][k]))
    THEN Fail(Note(st, "dinput", Shape2(dinput), Shape2(st.di[i][k])))
    ELSE AccumulateInto(Note(st, "dinput", Shape2(dinput), Shape2(st.di[i][k])),
                        pad_to_shape(dinput, Shape2(st.di[i][k])), i, k)

\* stride > 1, lines 198-207: the gradient with respect to the inputs
ConvBackwardInput(st, delta_dilated, i, j, k) ==
    IF st.err THEN st
    ELSE PadThenAccumulate(st, Convolve2dFull(delta_dilated, kernels[j][k]), i, k)

ConvBackwardDilated(st, delta_dilated, i, j, k) ==
    ConvBackwardInput(ConvBackwardKernel(st, delta_dilated, i, j, k),
                      delta_dilated, i, j, k)

\* stride > 1: lines 181-207
ConvBackwardStrided(st, delta, i, j, k) ==
    ConvBackwardDilated(st, dilate(delta[i][j], cfg.stride), i, j, k)

\* lines 169-207 for one (i, j, k)
ConvBackwardBody(st, delta, i, j, k) ==
    IF st.err THEN st
    ELSE IF j > Len(delta[i]) \/ k > Len(inputs[i]) THEN Fail(st)
    ELSE IF cfg.stride = 1 THEN ConvBackwardUnit(st, delta, i, j, k)
    ELSE ConvBackwardStrided(st, delta, i, j, k)

\* one iteration of the loops of lines 164-207; line 167 adds delta[i] to dbiases
\* when the sample's first iteration starts
ConvBackwardStep(st, delta, i, j, k) ==
    IF i > Len(delta) THEN Fail(st)
    ELSE IF j = 1 /\ k = 1
    THEN ConvBackwardBody(SetDb(st, AddInto3(st.db, delta[i])), delta, i, j, k)
    ELSE ConvBackwardBody(st, delta, i, j, k)

RECURSIVE ConvBackwardLoop(_, _, _, _)
ConvBackwardLoop(st, delta, t, n) ==
    IF t > n \/ st.err THEN st
    ELSE ConvBackwardLoop(
             ConvBackwardStep(st, delta,
                              LoopI(t, cfg.output_channels, cfg.input_channels),
                              LoopJ(t, cfg.output_channels, cfg.input_channels),
                              LoopK(t, cfg.input_channels)),
             delta, t + 1, n)

ZerosLike3(t) == [j \in 1..Len(t) |-> Zeros(t[j].r, t[j].c)]

ZerosLike4(t) == [i \in 1..Len(t) |-> ZerosLike3(t[i])]

GradientStartKept ==
    [dk |-> IF "dkernels" \in has THEN dkernels ELSE ZerosLike4(kernels),
     db |-> IF "dbiases" \in has THEN dbiases ELSE ZerosLike3(biases),
     di |-> ZerosLike4(inputs), err |-> FALSE, pads |-> {}]

\* lines 156-158: every gradient attribute starts as zeros
GradientStart ==
    [dk |-> ZerosLike4(kernels), db |-> ZerosLike3(biases),
     di |-> ZerosLike4(inputs), err |-> FALSE, pads |-> {}]

\* what lines 155-207 leave in the gradient attributes, when self.inputs exists
ConvGradients(delta) ==
    ConvBackwardLoop(GradientStart, delta, 1,
                     Len(inputs) * cfg.output_channels * cfg.input_channels)

\* lines 156-157 run and line 158 raises AttributeError
ConvGradientsNoInputs ==
    [dk |-> ZerosLike4(kernels), db |-> ZerosLike3(biases), di |-> dinputs,
     err |-> TRUE, pads |-> {}]

ConvBackwardStore(delta, end) ==
    /\ call' = BackwardCall(delta, end.err)
    /\ dkernels' = end.dk
    /\ dbiases' = end.db
    /\ dinputs' = end.di
    /\ padCalls' = end.pads
    /\ has' = has \cup {"dkernels", "dbiases"}
                  \cup (IF "inputs" \in has THEN {"dinputs"} ELSE {})
    /\ UNCHANGED <<kind, cfg, weights, kernels, biases, inputs, output, dweights>>

ConvBackward(delta) ==
    /\ Live("conv")
    /\ ConvBackwardStore(delta, IF "inputs" \in has THEN ConvGradients(delta)
                                ELSE ConvGradientsNoInputs)

\* a single sample is all ones, a larger batch counts up from 1
BatchPattern(b) == IF b = 1 THEN "ones" ELSE "ramp"

\* the arguments the model passes to ConvolutionalLayer.forward: <<shape, pattern>>
\* for the constructor's input_shape, and two wrongly shaped ones
ConvInputArgs ==
    IF kind # "conv" THEN {}
    ELSE LET ic == cfg.input_shape[1]
             h == cfg.input_shape[2]
             w == cfg.input_shape[3]
         IN  {<<b, ic, h, w, BatchPattern(b)>> : b \in 1..MaxBatch}
             \cup {<<1, c, h, w, "ramp">> : c \in {ic - 1} \cap (1..MaxCh)}
             \cup {<<1, ic, h, c, "ramp">> : c \in {w - 1} \cap (1..MaxSize)}

\* the arguments the model passes to ConvolutionalLayer.backward: shaped like
\* output (when that is not empty), and one wrongly shaped
ConvDeltaArgs ==
    IF kind # "conv" THEN {}
    ELSE LET oc == cfg.output_shape[1]
             oh == cfg.output_shape[2]
             ow == cfg.output_shape[3]
             n == IF "output" \in has THEN Len(output) ELSE 1
         IN  {<<n, oc, oh, ow, "ramp">> : z \in IF oh > 0 /\ ow > 0 THEN {0} ELSE {}}
             \cup {<<n, oc, oh + 1, ow + 1, "ramp">>}

(* --------------------------- DenseLayer ------------------------------- *)
Transpose(m) == Mat(m.c, m.r, LAMBDA y, x : m.v[x][y])

\* np.dot(a, b) for 2D arrays with a.c = b.r
MatMul(a, b) ==
    Mat(a.r, b.c,
        LAMBDA y, x : SumSeq([n \in 1..a.c |-> a.v[y][n] * b.v[n][x]]))

\* np.dot(inputs, weights) + biases
DenseOutput(x) ==
    Mat(x.r, weights.c, LAMBDA y, n : MatMul(x, weights).v[y][n] + biases[n])

\* np.sum(delta, axis=0)
SumAxis0(delta) ==
    [n \in 1..delta.c |-> SumSeq([y \in 1..delta.r |-> delta.v[y][n]])]

\* weights are 0.1 * randn, here the identity-like or a counting pattern
DenseWeights(n_inputs, n_neurons, p) ==
    IF p = "ones"
    THEN Mat(n_inputs, n_neurons, LAMBDA y, x : IF y = x THEN 1 ELSE 0)
    ELSE Gen2(n_inputs, n_neurons, p, 0)

DenseInit(n_inputs, n_neurons, p) ==
    /\ kind = "none"
    /\ kind' = "dense"
    /\ cfg' = [n_inputs |-> n_inputs, n_neurons |-> n_neurons]
    /\ weights' = DenseWeights(n_inputs, n_neurons, p)
    /\ biases' = [n \in 1..n_neurons |-> 0]
    /\ has' = {"weights", "biases"}
    /\ call' = [NoCall EXCEPT !.op = "init"]
    /\ UNCHANGED <<kernels, inputs, output, dweights, dkernels, dbiases, dinputs,
                   padCalls>>

\* line 49 stores the inputs before line 51 can raise
DenseForward(x) ==
    /\ Live("dense")
    /\ inputs' = x
    /\ call' = ForwardCall(x, (x.c # weights.r))
    /\ IF x.c # weights.r
       THEN /\ has' = has \cup {"inputs"}
            /\ UNCHANGED output
       ELSE /\ has' = has \cup {"inputs", "output"}
            /\ output' = DenseOutput(x)
    /\ UNCHANGED <<kind, cfg, weights, kernels, biases, dweights, dkernels,
                   dbiases, dinputs, padCalls>>

\* lines 66-68 run in order; each np.dot can raise
DenseBackward(delta) ==
    /\ Live("dense")
    /\ IF "inputs" \notin has
       THEN /\ call' = BackwardCall(delta, TRUE)
            /\ UNCHANGED <<has, dweights, dbiases, dinputs>>
       ELSE IF inputs.r # delta.r
       THEN /\ call' = BackwardCall(delta, TRUE)
            /\ UNCHANGED <<has, dweights, dbiases, dinputs>>
       ELSE /\ dweights' = MatMul(Transpose(inputs), delta)
            /\ dbiases' = SumAxis0(delta)
            /\ call' = BackwardCall(delta, (delta.c # weights.c))
            /\ IF delta.c # weights.c
               THEN /\ has' = has \cup {"dweights", "dbiases"}
                    /\ UNCHANGED dinputs
               ELSE /\ has' = has \cup {"dweights", "dbiases", "dinputs"}
                    /\ dinputs' = MatMul(delta, Transpose(weights))
    /\ UNCHANGED <<kind, cfg, weights, kernels, biases, inputs, output, dkernels,
                   padCalls>>

\* the arguments the model passes to DenseLayer.forward: <<rows, columns, pattern>>
DenseInputArgs ==
    IF kind # "dense" THEN {}
    ELSE {<<b, cfg.n_inputs, p>> : b \in 1..MaxBatch, p \in Patterns}
         \cup {<<1, cfg.n_inputs + 1, "ramp">>}

\* the arguments the model passes to DenseLayer.backward
DenseDeltaArgs ==
    IF kind # "dense" THEN {}
    ELSE LET n == IF "output" \in has THEN output.r ELSE 1
         IN  {<<n, cfg.n_neurons, p>> : p \in Patterns}
             \cup {<<n, cfg.n_neurons + 1, "ramp">>, <<n + 1, cfg.n_neurons, "ramp">>}

(* -------------------------- ReshapeLayer ------------------------------ *)
Product(shape) == shape[1] * shape[2] * shape[3]

\* np.reshape(inputs, (batch_size, self.output_shape)) in row-major order
Flatten(x, size) ==
    LET h == x[1][1].r
        w == x[1][1].c
    IN  Mat(Len(x), size,
            LAMBDA i, n : x[i][(n - 1) \div (h * w) + 1]
                            .v[(((n - 1) \div w) % h) + 1][((n - 1) % w) + 1])

UnflattenColumnMajor(delta, shape) ==
    [i \in 1..delta.r |-> [k \in 1..shape[1] |->
        Mat(shape[2], shape[3],
            LAMBDA y, x : delta.v[i][((x - 1) * shape[2] + (y - 1)) * shape[1] + k])]]

\* np.reshape(delta, (batch_size, *self.input_shape)) in row-major order
Unflatten(delta, shape) ==
    [i \in 1..delta.r |-> [k \in 1..shape[1] |->
        Mat(shape[2], shape[3],
            LAMBDA y, x : delta.v[i][((k - 1) * shape[2] + (y - 1)) * shape[3] + x])]]

ReshapeInit(input_shape, output_shape) ==
    /\ kind = "none"
    /\ kind' = "reshape"
    /\ cfg' = [input_shape |-> input_shape, output_shape |-> output_shape]
    /\ call' = [NoCall EXCEPT !.op = "init"]
    /\ UNCHANGED <<attrs, padCalls>>

\* np.reshape raises when the element counts differ
ReshapeForward(x) ==
    LET fits == Len(x[1]) * x[1][1].r * x[1][1].c = cfg.output_shape
    IN  /\ Live("reshape")
        /\ call' = ForwardCall(x, ~fits)
        /\ IF fits
           THEN /\ output' = Flatten(x, cfg.output_shape)
                /\ has' = has \cup {"output"}
           ELSE UNCHANGED <<output, has>>
        /\ UNCHANGED <<kind, cfg, weights, kernels, biases, inputs, dweights,
                       dkernels, dbiases, dinputs, padCalls>>

ReshapeBackward(delta) ==
    LET fits == delta.c = Product(cfg.input_shape)
    IN  /\ Live("reshape")
        /\ call' = BackwardCall(delta, ~fits)
        /\ IF fits
           THEN /\ dinputs' = Unflatten(delta, cfg.input_shape)
                /\ has' = has \cup {"dinputs"}
           ELSE UNCHANGED <<dinputs, has>>
        /\ UNCHANGED <<kind, cfg, weights, kernels, biases, inputs, output,
                       dweights, dkernels, dbiases, padCalls>>

\* the arguments the model passes to ReshapeLayer.forward
ReshapeInputArgs ==
    IF kind # "reshape" THEN {}
    ELSE {<<b, cfg.input_shape[1], cfg.input_shape[2], cfg.input_shape[3], "ramp">> :
              b \in 1..MaxBatch}
         \cup {<<1, 1, 1, Product(cfg.input_shape) + 1, "ramp">>}

\* the arguments the model passes to ReshapeLayer.backward: the stored output,
\* and arrays of the right and of a wrong width
ReshapeDeltas ==
    IF kind # "reshape" THEN {}
    ELSE (IF "output" \in has THEN {output} ELSE {})
         \cup {Gen2(1, Product(cfg.input_shape), "ones", 0),
               Gen2(1, Product(cfg.input_shape) + 1, "ones", 0)}

Next ==
    \/ /\ kind = "none"
       /\ \E ic, oc \in 1..MaxCh, h, w \in 1..MaxSize, kernel_size \in 1..MaxKernel,
             stride \in 1..MaxStride, p \in Patterns :
               /\ ic + oc <= MaxCh + 1
               /\ ConvInit(ic, oc, h, w, kernel_size, stride, p)
    \/ \E a \in ConvInputArgs : ConvForward(Gen4(a[1], a[2], a[3], a[4], a[5]))
    \/ \E a \in ConvDeltaArgs : ConvBackward(Gen4(a[1], a[2], a[3], a[4], a[5]))
    \/ /\ kind = "none"
       /\ \E n_inputs, n_neurons \in 1..MaxUnits, p \in Patterns :
               DenseInit(n_inputs, n_neurons, p)
    \/ \E a \in DenseInputArgs : DenseForward(Gen2(a[1], a[2], a[3], 1))
    \/ \E a \in DenseDeltaArgs : DenseBackward(Gen2(a[1], a[2], a[3], 0))
    \/ /\ kind = "none"
       /\ \E d \in 1..MaxCh, h, w \in 1..MaxSize, extra \in 0..1 :
               ReshapeInit(<<d, h, w>>, d * h * w + extra)
    \/ \E a \in ReshapeInputArgs : ReshapeForward(Gen4(a[1], a[2], a[3], a[4], a[5]))
    \/ \E delta \in ReshapeDeltas : ReshapeBackward(delta)

Spec == Init /\ [][Next]_vars

(* ----------------------------- claims --------------------------------- *)
\* the constructor arguments satisfy kernel_size <= input_height, input_width
ConvCfgValid ==
    /\ kind = "conv"
    /\ cfg.kernel_size <= cfg.input_shape[2]
    /\ cfg.kernel_size <= cfg.input_shape[3]

\* the most recent call was forward, on an input of the constructor's input_shape
ConvForwardDone ==
    /\ ConvCfgValid
    /\ call.op = "forward"
    /\ <<Len(call.x[1]), call.x[1][1].r, call.x[1][1].c>> = cfg.input_shape

\* C1: forward on an input of the configured shape completes, and output has
\* floor((input - kernel_size) / stride) + 1 rows and columns per channel, which
\* is also the size of the stride-1 valid correlation subsampled by stride.
C1_OutputShape ==
    ConvForwardDone =>
        LET oh == (cfg.input_shape[2] - cfg.kernel_size) \div cfg.stride + 1
            ow == (cfg.input_shape[3] - cfg.kernel_size) \div cfg.stride + 1
        IN  /\ ~call.err
            /\ cfg.output_shape = <<cfg.output_channels, oh, ow>>
            /\ Len(output) = Len(call.x)
            /\ \A i \in 1..Len(output) :
                   /\ Len(output[i]) = cfg.output_channels
                   /\ \A j \in 1..cfg.output_channels :
                          /\ Shape2(output[i][j]) = <<oh, ow>>
                          /\ Shape2(biases[j]) = <<oh, ow>>
                          /\ \A k \in 1..cfg.input_channels :
                                 Shape2(Subsample(
                                     Zeros(inputs[i][k].r - kernels[j][k].r + 1,
                                           inputs[i][k].c - kernels[j][k].c + 1),
                                     cfg.stride)) = <<oh, ow>>

C1_Witness ==
    /\ ConvForwardDone /\ ~call.err
    /\ Len(output) = 2
    /\ cfg.stride = 2
    /\ cfg.input_shape[2] = 3 /\ cfg.input_shape[3] = 2 /\ cfg.kernel_size = 2
    /\ Shape2(output[2][1]) = <<1, 1>>

\* the sum over input channels and kernel offsets of the window whose top-left
\* corner is (p * stride, q * stride), counting p and q from 0
WindowSum(i, j, p, q) ==
    SumSeq([k \in 1..cfg.input_channels |->
        Sum2(cfg.kernel_size, cfg.kernel_size,
             LAMBDA a, b : inputs[i][k].v[(p - 1) * cfg.stride + a]
                                         [(q - 1) * cfg.stride + b]
                           * kernels[j][k].v[a][b])])

\* the scenario of the claim: one 3x3 all-ones sample, one 2x2 all-ones kernel,
\* zero biases
OnesScenario(stride) ==
    /\ ConvForwardDone
    /\ cfg.input_shape = <<1, 3, 3>> /\ cfg.output_channels = 1
    /\ cfg.kernel_size = 2 /\ cfg.stride = stride
    /\ kernels = Gen4(1, 1, 2, 2, "ones")
    /\ biases = Gen3(1, 1 + (1 \div stride), 1 + (1 \div stride), "zero", 0)
    /\ inputs = Gen4(1, 1, 3, 3, "ones")

\* C2: after forward, output[i, j][p, q] is biases[j][p, q] plus the sum over
\* input channels and kernel offsets of inputs[i, k][p*stride + a, q*stride + b]
\* * kernels[j, k][a, b]; the all-ones 3x3 scenario gives 4 in each of the 2x2
\* cells at stride 1 and a single 4 at stride 2.
C2_OutputValues ==
    /\ (ConvForwardDone /\ ~call.err) =>
           \A i \in 1..Len(output) : \A j \in 1..cfg.output_channels :
               \A p \in 1..output[i][j].r : \A q \in 1..output[i][j].c :
                   output[i][j].v[p][q] = biases[j].v[p][q] + WindowSum(i, j, p, q)
    /\ OnesScenario(1) =>
           output = << << [r |-> 2, c |-> 2, v |-> << <<4, 4>>, <<4, 4>> >>] >> >>
    /\ OnesScenario(2) =>
           output = << << [r |-> 1, c |-> 1, v |-> << <<4>> >>] >> >>

C2_Witness ==
    /\ ConvForwardDone /\ ~call.err
    /\ cfg.stride = 2 /\ cfg.kernel_size = 1 /\ cfg.input_channels = 2
    /\ Len(output) = 2
    /\ Shape2(output[2][1]) = <<2, 2>>
    /\ output[2][1].v[2][2] > output[1][1].v[1][1]

OnesScenarioReached == OnesScenario(2) /\ ~call.err

\* C6 (as claimed): no ConvolutionalLayer object exists whose kernel is larger
\* than its input or whose output_shape has a spatial dimension below 1.
C6_NoEmptyLayer ==
    kind = "conv" =>
        /\ cfg.kernel_size <= cfg.input_shape[2]
        /\ cfg.kernel_size <= cfg.input_shape[3]
        /\ cfg.output_shape[2] >= 1
        /\ cfg.output_shape[3] >= 1

\* the most recent call was backward on a square input with stride > 1
StridedSquareBackward ==
    /\ ConvCfgValid
    /\ cfg.stride > 1
    /\ cfg.input_shape[2] = cfg.input_shape[3]
    /\ call.op = "backward"
    /\ "inputs" \in has
    /\ Shape4(inputs) = <<Len(inputs)>> \o cfg.input_shape
    /\ Shape4(call.delta) = <<Len(inputs)>> \o cfg.output_shape

\* C9 (as claimed): on a square input with stride > 1, a dilated gradient whose
\* side differs from input - kernel_size + 1 is exactly one element short of it.
C9_OneShort ==
    StridedSquareBackward =>
        \A c \in padCalls :
            (c.site = "delta" /\ c.from # c.to) => c.to[1] - c.from[1] = 1

\* C9 (amended): the dilated side (output_size - 1) * stride + 1 is short of
\* input - kernel_size + 1 by (input - kernel_size) mod stride, which is between
\* 0 and stride - 1 (so at most one when stride = 2) and never negative, and
\* backward pads the dilated gradient from the one side to the other.
C9_ShortByRemainder ==
    /\ (ConvCfgValid /\ cfg.stride > 1 /\ cfg.input_shape[2] = cfg.input_shape[3]) =>
           LET n == cfg.input_shape[2]
               target == n - cfg.kernel_size + 1
               side == DilatedSide(cfg.output_shape[2], cfg.stride)
           IN  /\ target - side = (n - cfg.kernel_size) % cfg.stride
               /\ target - side \in 0..(cfg.stride - 1)
               /\ cfg.stride = 2 => target - side \in {0, 1}
    /\ StridedSquareBackward =>
           \A c \in padCalls :
               c.site = "delta" =>
                   /\ c.to = <<cfg.input_shape[2] - cfg.kernel_size + 1,
                               cfg.input_shape[2] - cfg.kernel_size + 1>>
                   /\ c.from = <<DilatedSide(cfg.output_shape[2], cfg.stride),
                                 DilatedSide(cfg.output_shape[3], cfg.stride)>>
                   /\ c.to[1] - c.from[1] \in 0..(cfg.stride - 1)

C9_Witness ==
    /\ StridedSquareBackward /\ ~call.err
    /\ \E c \in padCalls : c.site = "delta" /\ c.to[1] - c.from[1] = 2

\* C10 (as claimed): pad_to_shape is called only on an array whose shape
\* differs from the target shape.
C10_PadOnlyWhenNeeded ==
    (kind = "conv" /\ call.op = "backward") =>
        \A c \in padCalls : c.from # c.to

\* forward ran on an input of the configured shape and the most recent call is
\* backward(delta) with delta shaped like output
ConvBackwardDone ==
    /\ ConvCfgValid
    /\ call.op = "backward"
    /\ {"inputs", "output"} \subseteq has
    /\ Shape4(inputs) = <<Len(inputs)>> \o cfg.input_shape
    /\ Shape4(call.delta) = Shape4(output)

DenseBackwardDone ==
    /\ kind = "dense"
    /\ call.op = "backward"
    /\ {"inputs", "output"} \subseteq has
    /\ inputs.c = cfg.n_inputs
    /\ Shape2(call.delta) = Shape2(output)

ReshapeBackwardDone ==
    /\ kind = "reshape"
    /\ cfg.output_shape = Product(cfg.input_shape)
    /\ call.op = "backward"
    /\ "output" \in has
    /\ Shape4(call.x) = <<Len(call.x)>> \o cfg.input_shape
    /\ Shape2(call.delta) = Shape2(output)

\* C3 (as claimed): for every layer and every valid configuration, backward
\* after forward completes and leaves dinputs shaped like inputs,
\* dweights/dkernels like weights/kernels and dbiases like biases.
C3_GradientShapes ==
    /\ ConvBackwardDone =>
           /\ ~call.err
           /\ Shape4(dinputs) = Shape4(inputs)
           /\ Shape4(dkernels) = Shape4(kernels)
           /\ Shape3(dbiases) = Shape3(biases)
    /\ DenseBackwardDone =>
           /\ ~call.err
           /\ Shape2(dinputs) = Shape2(inputs)
           /\ Shape2(dweights) = Shape2(weights)
           /\ Len(dbiases) = Len(biases)
    /\ ReshapeBackwardDone =>
           /\ ~call.err
           /\ Shape4(dinputs) = Shape4(call.x)

\* the derivative of L = sum(delta * output) with respect to kernels[j, k][a, b]
KernelDerivative(delta, j, k, a, b) ==
    SumSeq([i \in 1..Len(inputs) |->
        Sum2(delta[i][j].r, delta[i][j].c,
             LAMBDA p, q : inputs[i][k].v[(p - 1) * cfg.stride + a]
                                         [(q - 1) * cfg.stride + b]
                           * delta[i][j].v[p][q])])

\* the derivative of L with respect to inputs[i, k][y, x]
InputDerivative(delta, i, k, y, x) ==
    SumSeq([j \in 1..cfg.output_channels |->
        Sum2(delta[i][j].r, delta[i][j].c,
             LAMBDA p, q :
                 IF /\ y - (p - 1) * cfg.stride \in 1..cfg.kernel_size
                    /\ x - (q - 1) * cfg.stride \in 1..cfg.kernel_size
                 THEN delta[i][j].v[p][q]
                      * kernels[j][k].v[y - (p - 1) * cfg.stride]
                                       [x - (q - 1) * cfg.stride]
                 ELSE 0)])

ConvGradientsExact ==
    /\ \A j \in 1..cfg.output_channels : \A k \in 1..cfg.input_channels :
           \A a, b \in 1..cfg.kernel_size :
               dkernels[j][k].v[a][b] = KernelDerivative(call.delta, j, k, a, b)
    /\ \A j \in 1..cfg.output_channels :
           \A p \in 1..biases[j].r : \A q \in 1..biases[j].c :
               dbiases[j].v[p][q] =
                   SumSeq([i \in 1..Len(inputs) |-> call.delta[i][j].v[p][q]])
    /\ \A i \in 1..Len(inputs) : \A k \in 1..cfg.input_channels :
           \A y \in 1..inputs[i][k].r : \A x \in 1..inputs[i][k].c :
               dinputs[i][k].v[y][x] = InputDerivative(call.delta, i, k, y, x)

DenseGradientsExact ==
    /\ \A m \in 1..weights.r : \A n \in 1..weights.c :
           dweights.v[m][n] =
               SumSeq([b \in 1..inputs.r |-> inputs.v[b][m] * call.delta.v[b][n]])
    /\ \A n \in 1..weights.c :
           dbiases[n] = SumSeq([b \in 1..inputs.r |-> call.delta.v[b][n]])
    /\ \A b \in 1..inputs.r : \A m \in 1..weights.r :
           dinputs.v[b][m] =
               SumSeq([n \in 1..weights.c |-> call.delta.v[b][n] * weights.v[m][n]])

\* C4 (as claimed): the gradients a completed backward stores are the exact
\* derivatives of L = sum(delta * output), for the dense layer and for the
\* convolutional layer at every stride.
C4_ExactGradients ==
    /\ (ConvBackwardDone /\ ~call.err) => ConvGradientsExact
    /\ (DenseBackwardDone /\ ~call.err) => DenseGradientsExact

\* the part of C4 the code satisfies: the dense layer, and the convolutional
\* layer at stride 1 or on a square input
ExactGradientsOnSquare ==
    /\ (ConvBackwardDone /\ ~call.err
            /\ (cfg.stride = 1 \/ cfg.input_shape[2] = cfg.input_shape[3]))
           => ConvGradientsExact
    /\ (DenseBackwardDone /\ ~call.err) => DenseGradientsExact

\* the scenario of the specification: identity weights, inputs [[2, 3]], delta
\* [[1, 1]]
DenseScenario ==
    (/\ kind = "dense" /\ call.op = "backward" /\ ~call.err
     /\ weights = [r |-> 2, c |-> 2, v |-> << <<1, 0>>, <<0, 1>> >>]
     /\ inputs = [r |-> 1, c |-> 2, v |-> << <<2, 3>> >>]
     /\ call.delta = [r |-> 1, c |-> 2, v |-> << <<1, 1>> >>])
    => /\ output = [r |-> 1, c |-> 2, v |-> << <<2, 3>> >>]
       /\ dweights = [r |-> 2, c |-> 2, v |-> << <<2, 2>>, <<3, 3>> >>]
       /\ dbiases = <<1, 1>>
       /\ dinputs = [r |-> 1, c |-> 2, v |-> << <<1, 1>> >>]

\* C5 (as claimed): a forward or backward call that raises leaves every
\* attribute of the layer as it was before the call.
C5_FailedCallChangesNothing ==
    [][(call'.err /\ call'.op \in {"forward", "backward"}) => UNCHANGED attrs]_vars

\* C7: with output_shape the product of input_shape, forward(x) gives output of
\* shape [batch, output_shape] with as many elements as x, and backward(output)
\* gives dinputs equal to x in shape and in content.
C7_ReshapeRoundTrip ==
    /\ (/\ kind = "reshape" /\ cfg.output_shape = Product(cfg.input_shape)
        /\ call.op = "forward"
        /\ Shape4(call.x) = <<Len(call.x)>> \o cfg.input_shape)
           => /\ ~call.err
              /\ Shape2(output) = <<Len(call.x), cfg.output_shape>>
              /\ output.r * output.c = Len(call.x) * Product(cfg.input_shape)
    /\ (ReshapeBackwardDone /\ call.delta = output)
           => /\ ~call.err
              /\ Shape4(dinputs) = Shape4(call.x)
              /\ dinputs = call.x
              /\ Len(dinputs) * Product(cfg.input_shape) = output.r * output.c

C7_Witness ==
    /\ ReshapeBackwardDone /\ call.delta = output /\ ~call.err
    /\ Shape4(dinputs) = <<2, 2, 2, 3>>
    /\ dinputs[2][2].v[2][3] = 24

\* the gradients backward(delta) stores on a layer that has only run
\* forward(inputs)
FreshConvGradients(delta) ==
    ConvBackwardLoop([dk |-> ZerosLike4(kernels), db |-> ZerosLike3(biases),
                      di |-> ZerosLike4(inputs), err |-> FALSE, pads |-> {}],
                     delta, 1,
                     Len(inputs) * cfg.output_channels * cfg.input_channels)

SameGradients(fresh) ==
    /\ dkernels' = fresh.dk
    /\ dbiases' = fresh.db
    /\ dinputs' = fresh.di

\* C8: whatever calls came before, a forward call on a well-shaped input
\* completes, a completed backward(delta) leaves inputs, output and the
\* parameters unchanged, and the gradients it stores are those of
\* forward(inputs), backward(delta) on a fresh layer with the same parameters.
C8_LastForwardOnly ==
    [][/\ (kind' = "conv" /\ call'.op = "forward"
              /\ cfg.kernel_size <= cfg.input_shape[2]
              /\ cfg.kernel_size <= cfg.input_shape[3]
              /\ Shape4(call'.x) = <<Len(call'.x)>> \o cfg.input_shape)
             => ~call'.err /\ inputs' = call'.x
       /\ (kind' = "dense" /\ call'.op = "forward" /\ call'.x.c = cfg.n_inputs)
             => ~call'.err /\ inputs' = call'.x
       /\ (kind' = "conv" /\ call'.op = "backward" /\ ~call'.err)
             => /\ UNCHANGED <<inputs, output, kernels, biases>>
                /\ SameGradients(FreshConvGradients(call'.delta))
       /\ (kind' = "dense" /\ call'.op = "backward" /\ ~call'.err)
             => /\ UNCHANGED <<inputs, output, weights, biases>>
                /\ dweights' = MatMul(Transpose(inputs), call'.delta)
                /\ dbiases' = SumAxis0(call'.delta)
                /\ dinputs' = MatMul(call'.delta, Transpose(weights))
      ]_vars

C8_Witness ==
    /\ kind = "conv" /\ call.op = "backward" /\ call.again /\ ~call.err
    /\ cfg.stride = 2 /\ cfg.kernel_size = 2 /\ cfg.input_channels = 2
    /\ Len(inputs) = 2
    /\ dkernels[1][2].v[2][2] > 0

====
